---- MODULE Spec2Model ----
(***************************************************************************)
(* The three notebooks of the repository as state machines:                *)
(*   limit_cycles   src/limit_cycles.ipynb                                 *)
(*   linear_sysid   src/exercises/sysid/linear_sysid.ipynb                 *)
(*   van_der_pol    src/unnamed/part_000 (region-of-attraction exercise)   *)
(* A behaviour is one kernel session per notebook in `kernels`, each       *)
(* running its cells top to bottom.  A failed assertion stops the          *)
(* notebook (pc = "error").  The solver, the simulated noise and the       *)
(* student's edits of the Method 2 cell are inputs.                        *)
(***************************************************************************)
EXTENDS Integers, Sequences, FiniteSets, TLC

VARIABLES
    kernels,      \* the notebooks run in this behaviour
    pc,           \* per notebook: the next statement to run
    trace,        \* per notebook: the phases run so far, in order
    locals,       \* per notebook: its interpreter's variables (name -> value)
    progs,        \* per MathematicalProgram: what was added, solved, asserted, read
    callbacks,    \* state-trajectory callbacks registered with dircol
    h_updates,    \* how often draw_trajectory has modified the plot handle h
    filled,       \* the student lines present in the Method 2 cell
    verified,     \* the outcome of is_verified(rho) for each rho (in rho_step units)
    verify_calls, \* the arguments is_verified has been called with, in order
    cwd,          \* per notebook: the working directory of its kernel
    files,        \* per directory: the content of results.json
    printed       \* per notebook: what print_test_results has shown

vars == <<kernels, pc, trace, locals, progs, callbacks, h_updates, filled,
          verified, verify_calls, cwd, files, printed>>

Notebooks == {"limit_cycles", "linear_sysid", "van_der_pol"}

ExerciseNotebooks == {"linear_sysid", "van_der_pol"}

\* ------------------------------------------------------------------ bounds

\* rho values are counted in units of rho_step; is_verified is tabulated on
\* 0..MaxRho and the solver's optimal rho lies in 0..MaxRho
MaxRho == 2

\* size of the standard-normal draws and of noise_level (in data units)
MaxNoise == 1

\* number of logged samples (len(ts) in generate_data)
NumSamples == 3

\* size of the entries of the data the residual computation is tried on
MaxEntry == 1

\* ----------------------------------------------------------- small helpers

Last(s) == s[Len(s)]

\* indices of the events e in a trace
Positions(s, e) == {i \in 1..Len(s) : s[i] = e}

\* a fresh interpreter: no variable is bound
NoVariables == [name \in {} |-> 0]

Defined(nb, name) == name \in DOMAIN locals[nb]

\* bind name := value in notebook nb (rebinding replaces the old value)
Bind(nb, binding) == [locals EXCEPT ![nb] = binding @@ @]

Log(nb, events) == [trace EXCEPT ![nb] = @ \o events]

Goto(nb, label) == [pc EXCEPT ![nb] = label]

\* ------------------------------------------------- mathematical programs

ProgIds == {"prog", "prog2", "prog3",
            "sysid_infnorm_1", "sysid_1norm_1", "sysid_infnorm_2", "sysid_1norm_2"}

Owner(p) == CASE p = "prog" -> "limit_cycles"
              [] p \in {"prog2", "prog3"} -> "van_der_pol"
              [] OTHER -> "linear_sysid"

NoProg == [constructed |-> FALSE, constraints |-> 0, costs |-> 0, solves |-> 0,
           success |-> FALSE, asserted |-> FALSE, reads |-> 0]

\* MathematicalProgram() / DirectCollocation(...).prog(): a fresh program
NewProg(p, nconstraints) ==
    [progs EXCEPT ![p] = [NoProg EXCEPT !.constructed = TRUE,
                                        !.constraints = nconstraints]]

\* result = Solve(prog): the solver reports success or failure
Solved(p, ok) ==
    [progs EXCEPT ![p].solves = @ + 1, ![p].success = ok]

\* assert result.is_success() has passed
Asserted(p) == [progs EXCEPT ![p].asserted = TRUE]

\* a value is read from the result (GetSolution, get_optimal_cost,
\* ReconstructStateTrajectory)
ReadResult(ps, p) == [ps EXCEPT ![p].reads = @ + 1]

\* ---------------------------------------------- limit_cycles.ipynb

LC == "limit_cycles"

\* Units: states in tenths (0.1), times in hundredths (0.01).
\* DirectCollocation(..., num_time_samples=61, minimum_timestep=0.01,
\* maximum_timestep=0.5)
num_time_samples == 61

minimum_timestep == 1

maximum_timestep == 50

\* AddBoundingBoxConstraint([0., 0.1], [0., 10.], dircol.initial_state()):
\* the bounds on the second component (the velocity)
velocity_lower == 1

velocity_upper == 100

\* the values around an interval's two ends
Near(lo, hi) == {lo - 1, lo, lo + 1, hi - 1, hi, hi + 1}

\* The values the solver may try for the decision variables of the program:
\* the initial and the final state (position, velocity) and the timesteps
\* h[k] of the num_time_samples - 1 intervals, all equal or equal but for the
\* first or the last one.
StateValues == {<<x, v>> : x \in -1..1, v \in Near(velocity_lower, velocity_upper)}

TimestepVectors ==
    {[k \in 1..(num_time_samples - 1) |-> IF k = j THEN b ELSE a] :
        a \in Near(minimum_timestep, maximum_timestep),
        b \in Near(minimum_timestep, maximum_timestep),
        j \in {1, num_time_samples - 1}}

DecisionValues ==
    [initial_state : StateValues, final_state : StateValues, h : TimestepVectors]

\* lines 53-54: minimum_timestep <= h[k] <= maximum_timestep
TimestepBounds(v) ==
    \A k \in 1..Len(v.h) : minimum_timestep <= v.h[k] /\ v.h[k] <= maximum_timestep

\* line 58: dircol.AddEqualTimeIntervalsConstraints()
EqualTimeIntervals_FirstPairOnly(v) == v.h[1] = v.h[2]

EqualTimeIntervals(v) == \A k \in 1..(Len(v.h) - 1) : v.h[k] = v.h[k + 1]

\* line 61: the bounding box on the initial state, both ends included
InitialStateBox(v) ==
    /\ 0 <= v.initial_state[1] /\ v.initial_state[1] <= 0
    /\ velocity_lower <= v.initial_state[2] /\ v.initial_state[2] <= velocity_upper

\* line 64: eq(dircol.final_state(), dircol.initial_state())
Periodicity_PositionOnly(v) == v.final_state[1] = v.initial_state[1]

Periodicity(v) == v.final_state = v.initial_state

\* A point the solver may report with is_success(): it satisfies every
\* constraint of the program.  (The collocation constraints of the dynamics
\* narrow the choice further; they are not evaluated here.)
Feasible(v) ==
    /\ TimestepBounds(v)
    /\ EqualTimeIntervals(v)
    /\ InitialStateBox(v)
    /\ Periodicity(v)

\* the break times of the reconstructed trajectory: 0, h[1], h[1]+h[2], ...
RECURSIVE Breaks(_)
Breaks(h) ==
    IF Len(h) = 0 THEN <<0>>
    ELSE LET b == Breaks(SubSeq(h, 1, Len(h) - 1))
         IN  Append(b, b[Len(b)] + h[Len(h)])

\* dircol.ReconstructStateTrajectory(result): the breaks and the first and
\* last knot of the piecewise polynomial
ReconstructStateTrajectory(result) ==
    [breaks |-> Breaks(result.h),
     initial_state |-> result.initial_state,
     final_state |-> result.final_state]

LC_Imports ==
    /\ LC \in kernels /\ pc[LC] = "imports"
    /\ pc' = Goto(LC, "setup")
    /\ trace' = Log(LC, <<"import">>)
    /\ UNCHANGED <<kernels, locals, progs, callbacks, h_updates, filled,
                   verified, verify_calls, cwd, files, printed>>

\* LC_Setup with the figure and the empty plot h created only after the solve
LC_Setup_PlotLater ==
    /\ LC \in kernels /\ pc[LC] = "setup"
    /\ progs' = NewProg("prog", 3)
    /\ trace' = Log(LC, <<"define">>)
    /\ pc' = Goto(LC, "solve")
    /\ UNCHANGED <<kernels, locals, callbacks, h_updates, filled, verified,
                   verify_calls, cwd, files, printed>>

\* LC_Setup with the callback registered (the `if False` of line 86 true)
LC_Setup_Registered ==
    /\ LC \in kernels /\ pc[LC] = "setup"
    /\ progs' = NewProg("prog", 3)
    /\ callbacks' = callbacks \cup {"draw_trajectory"}
    /\ locals' = Bind(LC, [h |-> <<>>])
    /\ trace' = Log(LC, <<"define", "plot">>)
    /\ pc' = Goto(LC, "solve")
    /\ UNCHANGED <<kernels, h_updates, filled, verified, verify_calls, cwd,
                   files, printed>>

\* vdp_limit_cycle, lines 47-87: the collocation program, its constraints,
\* the initial guess, the empty plot h, and the callback that is not registered
LC_Setup ==
    /\ LC \in kernels /\ pc[LC] = "setup"
    /\ progs' = NewProg("prog", 3)
    /\ callbacks' = IF FALSE THEN callbacks \cup {"draw_trajectory"} ELSE callbacks
    /\ locals' = Bind(LC, [h |-> <<>>])
    /\ trace' = Log(LC, <<"define", "plot">>)
    /\ pc' = Goto(LC, "solve")
    /\ UNCHANGED <<kernels, h_updates, filled, verified, verify_calls, cwd,
                   files, printed>>

\* line 89: result = Solve(prog); the solver invokes the registered
\* callbacks, and reports either success with a feasible point or failure
LC_Solve ==
    /\ LC \in kernels /\ pc[LC] = "solve"
    /\ \E ok \in BOOLEAN :
          /\ progs' = Solved("prog", ok)
          /\ IF ok
                THEN \E v \in {c \in DecisionValues : Feasible(c)} :
                         locals' = Bind(LC, [result |-> v])
                ELSE locals' = Bind(LC, [result |-> "not converged"])
    /\ h_updates' = h_updates + Cardinality(callbacks)
    /\ trace' = Log(LC, <<"solve">>)
    /\ pc' = Goto(LC, "assert")
    /\ UNCHANGED <<kernels, callbacks, filled, verified, verify_calls,
                   cwd, files, printed>>

\* line 90: assert result.is_success()
LC_Assert ==
    /\ LC \in kernels /\ pc[LC] = "assert"
    /\ IF progs["prog"].success
          THEN /\ progs' = Asserted("prog")
               /\ pc' = Goto(LC, "reconstruct")
          ELSE /\ pc' = Goto(LC, "error")
               /\ UNCHANGED progs
    /\ UNCHANGED <<kernels, trace, locals, callbacks, h_updates, filled,
                   verified, verify_calls, cwd, files, printed>>

\* line 92: x_trajectory = dircol.ReconstructStateTrajectory(result)
LC_Reconstruct ==
    /\ LC \in kernels /\ pc[LC] = "reconstruct"
    /\ progs' = ReadResult(progs, "prog")
    /\ locals' = Bind(LC, [x_trajectory |->
                                ReconstructStateTrajectory(locals[LC]["result"])])
    /\ pc' = Goto(LC, "plot")
    /\ UNCHANGED <<kernels, trace, callbacks, h_updates, filled, verified,
                   verify_calls, cwd, files, printed>>

\* lines 94-99: x_knots, plt.plot, display
LC_Plot ==
    /\ LC \in kernels /\ pc[LC] = "plot"
    /\ locals' = Bind(LC, [x_knots |-> locals[LC]["x_trajectory"]])
    /\ trace' = Log(LC, <<"plot">>)
    /\ pc' = Goto(LC, "done")
    /\ UNCHANGED <<kernels, progs, callbacks, h_updates, filled, verified,
                   verify_calls, cwd, files, printed>>

LimitCycles ==
    \/ LC_Imports \/ LC_Setup \/ LC_Solve \/ LC_Assert \/ LC_Reconstruct \/ LC_Plot

\* ---------------------------------------------- src/unnamed/part_000

VP == "van_der_pol"

VP_Imports ==
    /\ VP \in kernels /\ pc[VP] = "imports"
    /\ pc' = Goto(VP, "dynamics")
    /\ trace' = Log(VP, <<"import">>)
    /\ UNCHANGED <<kernels, locals, progs, callbacks, h_updates, filled,
                   verified, verify_calls, cwd, files, printed>>

\* line 68: f = lambda x: ...
VP_Dynamics ==
    /\ VP \in kernels /\ pc[VP] = "dynamics"
    /\ locals' = Bind(VP, [f |-> "time-reversed Van der Pol"])
    /\ trace' = Log(VP, <<"define">>)
    /\ pc' = Goto(VP, "portrait")
    /\ UNCHANGED <<kernels, progs, callbacks, h_updates, filled, verified,
                   verify_calls, cwd, files, printed>>

\* lines 101-107: limit cycle and phase portrait
VP_PhasePortrait ==
    /\ VP \in kernels /\ pc[VP] = "portrait"
    /\ locals' = Bind(VP, [limit_cycle |-> "CalcLimitCycle()"])
    /\ trace' = Log(VP, <<"plot">>)
    /\ pc' = Goto(VP, "lyapunov")
    /\ UNCHANGED <<kernels, progs, callbacks, h_updates, filled, verified,
                   verify_calls, cwd, files, printed>>

\* lines 148-154: A, Q, P = RealContinuousLyapunovEquation(A, Q)
VP_Lyapunov ==
    /\ VP \in kernels /\ pc[VP] = "lyapunov"
    /\ locals' = Bind(VP, [P |-> "RealContinuousLyapunovEquation(A, Q)"])
    /\ trace' = Log(VP, <<"define">>)
    /\ pc' = Goto(VP, "plot_defs")
    /\ UNCHANGED <<kernels, progs, callbacks, h_updates, filled, verified,
                   verify_calls, cwd, files, printed>>

\* lines 174-223: def plot_V, def plot_Vdot
VP_PlotDefs ==
    /\ VP \in kernels /\ pc[VP] = "plot_defs"
    /\ trace' = Log(VP, <<"define">>)
    /\ pc' = Goto(VP, "manual_check")
    /\ UNCHANGED <<kernels, locals, progs, callbacks, h_updates, filled,
                   verified, verify_calls, cwd, files, printed>>

\* lines 241-245: rho_max tuned by hand, plotted
VP_ManualCheck ==
    /\ VP \in kernels /\ pc[VP] = "manual_check"
    /\ locals' = Bind(VP, [rho_max |-> "2.3"])
    /\ trace' = Log(VP, <<"plot">>)
    /\ pc' = Goto(VP, "superimpose")
    /\ UNCHANGED <<kernels, progs, callbacks, h_updates, filled, verified,
                   verify_calls, cwd, files, printed>>

\* lines 261-264: level set over the phase portrait
VP_Superimpose ==
    /\ VP \in kernels /\ pc[VP] = "superimpose"
    /\ trace' = Log(VP, <<"plot">>)
    /\ pc' = Goto(VP, "def_is_verified")
    /\ UNCHANGED <<kernels, locals, progs, callbacks, h_updates, filled,
                   verified, verify_calls, cwd, files, printed>>

\* lines 302-335: def is_verified(rho).  The cell only defines the function;
\* whether the SOS program of a given rho is feasible is fixed by the
\* mathematics, tabulated here for rho = 0, rho_step, ..., MaxRho*rho_step.
VP_DefIsVerified ==
    /\ VP \in kernels /\ pc[VP] = "def_is_verified"
    /\ verified' \in [0..MaxRho -> BOOLEAN]
    /\ trace' = Log(VP, <<"define">>)
    /\ pc' = Goto(VP, "method1")
    /\ UNCHANGED <<kernels, locals, progs, callbacks, h_updates, filled,
                   verify_calls, cwd, files, printed>>

\* what is_verified(rho) returns (False beyond the tabulated range)
is_verified(rho) == rho \in DOMAIN verified /\ verified[rho]

\* lines 354-365: the Method 1 cell as it stands: rho = 0, rho_step = .01,
\* no line search, rho_method_1 = 0, print
VP_Method1 ==
    /\ VP \in kernels /\ pc[VP] = "method1"
    /\ locals' = Bind(VP, [rho |-> 0, rho_step |-> 1, rho_method_1 |-> 0])
    /\ trace' = Log(VP, <<"print">>)
    /\ pc' = Goto(VP, "method2_setup")
    /\ UNCHANGED <<kernels, progs, callbacks, h_updates, filled, verified,
                   verify_calls, cwd, files, printed>>

\* The two lines the student may write in the Method 2 cell (lines 463-467).
StudentLines == {"sos_constraint", "objective"}

\* len(prog2.GetAllConstraints()) after lines 442-467: NewSosPolynomial (458)
\* adds the one constraint that its Gram matrix is PSD; the student's
\* AddSosConstraint adds a PSD and a linear equality constraint; AddLinearCost
\* adds a cost, which is no constraint.
Prog2Constraints(lines) == 1 + (IF "sos_constraint" \in lines THEN 2 ELSE 0)

Prog2Costs(lines) == IF "objective" \in lines THEN 1 ELSE 0

\* lines 442-467: prog2, x, V, V_dot, l, rho (rebinding rho to a decision
\* variable) and whatever the student has written below
VP_Method2Setup ==
    /\ VP \in kernels /\ pc[VP] = "method2_setup"
    /\ \E lines \in SUBSET StudentLines :
          /\ filled' = lines
          /\ progs' = [NewProg("prog2", Prog2Constraints(lines))
                         EXCEPT !["prog2"].costs = Prog2Costs(lines)]
    /\ locals' = Bind(VP, [rho |-> "decision variable rho(0)"])
    /\ trace' = Log(VP, <<"define">>)
    /\ pc' = Goto(VP, "method2_guard")
    /\ UNCHANGED <<kernels, callbacks, h_updates, verified, verify_calls, cwd,
                   files, printed>>

\* line 470: if len(prog2.GetAllConstraints()) > 1:
VP_Method2Guard ==
    /\ VP \in kernels /\ pc[VP] = "method2_guard"
    /\ pc' = Goto(VP, IF progs["prog2"].constraints > 1 THEN "method2_solve"
                                                        ELSE "method3")
    /\ UNCHANGED <<kernels, trace, locals, progs, callbacks, h_updates, filled,
                   verified, verify_calls, cwd, files, printed>>

\* line 472: result = Solve(prog2)
VP_Method2Solve ==
    /\ VP \in kernels /\ pc[VP] = "method2_solve"
    /\ \E ok \in BOOLEAN : progs' = Solved("prog2", ok)
    /\ trace' = Log(VP, <<"solve">>)
    /\ pc' = Goto(VP, "method2_assert")
    /\ UNCHANGED <<kernels, locals, callbacks, h_updates, filled, verified,
                   verify_calls, cwd, files, printed>>

\* VP_Method2Assert without the assertion: the cell goes on whatever the flag
VP_Method2Assert_NoStop ==
    /\ VP \in kernels /\ pc[VP] = "method2_assert"
    /\ pc' = Goto(VP, "method2_read")
    /\ UNCHANGED <<kernels, trace, locals, progs, callbacks, h_updates, filled,
                   verified, verify_calls, cwd, files, printed>>

\* line 475: assert result.is_success()
VP_Method2Assert ==
    /\ VP \in kernels /\ pc[VP] = "method2_assert"
    /\ IF progs["prog2"].success
          THEN /\ progs' = Asserted("prog2")
               /\ pc' = Goto(VP, "method2_read")
          ELSE /\ pc' = Goto(VP, "error")
               /\ UNCHANGED progs
    /\ UNCHANGED <<kernels, trace, locals, callbacks, h_updates, filled,
                   verified, verify_calls, cwd, files, printed>>

\* lines 476-479: rho_method_2 = result.GetSolution(rho); print
VP_Method2Read ==
    /\ VP \in kernels /\ pc[VP] = "method2_read"
    /\ progs' = ReadResult(progs, "prog2")
    /\ \E r \in 0..MaxRho : locals' = Bind(VP, [rho_method_2 |-> r])
    /\ trace' = Log(VP, <<"print">>)
    /\ pc' = Goto(VP, "method3")
    /\ UNCHANGED <<kernels, callbacks, h_updates, filled, verified,
                   verify_calls, cwd, files, printed>>

\* lines 535-540: prog3 = MathematicalProgram(); rho_method_3 = 0; print
VP_Method3 ==
    /\ VP \in kernels /\ pc[VP] = "method3"
    /\ progs' = NewProg("prog3", 0)
    /\ locals' = Bind(VP, [rho_method_3 |-> 0])
    /\ trace' = Log(VP, <<"define", "print">>)
    /\ pc' = Goto(VP, "grade")
    /\ UNCHANGED <<kernels, callbacks, h_updates, filled, verified,
                   verify_calls, cwd, files, printed>>

VanDerPol ==
    \/ VP_Imports \/ VP_Dynamics \/ VP_PhasePortrait \/ VP_Lyapunov
    \/ VP_PlotDefs \/ VP_ManualCheck \/ VP_Superimpose \/ VP_DefIsVerified
    \/ VP_Method1 \/ VP_Method2Setup \/ VP_Method2Guard \/ VP_Method2Solve
    \/ VP_Method2Assert \/ VP_Method2Read \/ VP_Method3

\* --------------------------------- src/exercises/sysid/linear_sysid.ipynb

SI == "linear_sysid"

\* A matrix is the sequence of its rows (numpy's row-major 2-d array).
Rows(M) == Len(M)

Cols(M) == IF Len(M) = 0 THEN 0 ELSE Len(M[1])

\* np.zeros((r, c))
Zeros(r, c) == [i \in 1..r |-> [j \in 1..c |-> 0]]

Abs(v) == IF v < 0 THEN -v ELSE v

RECURSIVE SumSeq(_)
SumSeq(s) == IF Len(s) = 0 THEN 0 ELSE s[1] + SumSeq(Tail(s))

RECURSIVE MaxSeq(_)
MaxSeq(s) == IF Len(s) = 1 THEN s[1]
             ELSE LET m == MaxSeq(Tail(s)) IN IF s[1] > m THEN s[1] ELSE m

\* M @ N
MatMul(M, N) ==
    [i \in 1..Rows(M) |->
        [j \in 1..Cols(N) |-> SumSeq([k \in 1..Cols(M) |-> M[i][k] * N[k][j]])]]

MatAdd(M, N) == [i \in 1..Rows(M) |-> [j \in 1..Cols(M) |-> M[i][j] + N[i][j]]]

MatSub(M, N) == [i \in 1..Rows(M) |-> [j \in 1..Cols(M) |-> M[i][j] - N[i][j]]]

\* M * c
Scale(M, c) == [i \in 1..Rows(M) |-> [j \in 1..Cols(M) |-> M[i][j] * c]]

\* M[:, :-1]
AllButLastCol(M) == [i \in 1..Rows(M) |-> SubSeq(M[i], 1, Cols(M) - 1)]

\* M[:, 1:]
AllButFirstCol(M) == [i \in 1..Rows(M) |-> SubSeq(M[i], 2, Cols(M))]

\* Residual with the inputs shifted by one step: U[:,1:] for U[:,:-1]
Residual_InputsShifted(Ahat, Bhat, X, U) ==
    MatSub(MatAdd(MatMul(Ahat, AllButLastCol(X)), MatMul(Bhat, AllButFirstCol(U))),
           AllButFirstCol(X))

\* res = Ahat @ X[:,:-1] + Bhat @ U[:,:-1] - X[:,1:]   (lines 168, 225, 280)
Residual(Ahat, Bhat, X, U) ==
    MatSub(MatAdd(MatMul(Ahat, AllButLastCol(X)), MatMul(Bhat, AllButLastCol(U))),
           AllButFirstCol(X))

\* np.sum(res**2)
ResidualNorm2(res) ==
    SumSeq([i \in 1..Rows(res) |->
               SumSeq([j \in 1..Cols(res) |-> res[i][j] * res[i][j]])])

\* ResidualNormInf with the maximum taken along the rows: axis = 1
ResidualNormInf_OverTime(res) ==
    SumSeq([i \in 1..Rows(res) |->
               MaxSeq([j \in 1..Cols(res) |-> Abs(res[i][j])])])

\* np.sum(np.max(np.abs(res), axis = 0))
ResidualNormInf(res) ==
    SumSeq([j \in 1..Cols(res) |->
               MaxSeq([i \in 1..Rows(res) |-> Abs(res[i][j])])])

\* np.sum(np.abs(res))
ResidualNorm1(res) ==
    SumSeq([i \in 1..Rows(res) |->
               SumSeq([j \in 1..Cols(res) |-> Abs(res[i][j])])])

\* the three printed residuals (lines 169-171, 226-228, 281-283)
PrintedResiduals(Ahat, Bhat, X, U) ==
    LET res == Residual(Ahat, Bhat, X, U)
    IN  <<ResidualNorm2(res), ResidualNormInf(res), ResidualNorm1(res)>>

\* The test system of lines 46-53, scaled down: one state, one input, entries
\* A and B in -1..1, C the identity and D zero.
Systems == {[A |-> <<<<a>>>>, B |-> <<<<b>>>>] : a \in -1..1, b \in -1..1}

\* utraj at the k-th sample time (k = 0, 1, ...): sin(0.1*t) at t = 0.1*k in
\* units of 0.01, on the initial samples where it grows by one unit a sample
utraj(k) == k

\* the logged state trajectory x[0..n-1] of LinearSystem(A, B, C, D) from the
\* default (zero) state: x[k+1] = A x[k] + B u[k], logged as columns
Step(A, B, X) ==
    LET n  == Cols(X)
        xk == [i \in 1..Rows(A) |-> <<X[i][n]>>]
        uk == <<<<utraj(n - 1)>>>>
        xn == MatAdd(MatMul(A, xk), MatMul(B, uk))
    IN  [i \in 1..Rows(A) |-> Append(X[i], xn[i][1])]

RECURSIVE Simulate(_, _, _)
Simulate(A, B, n) ==
    IF n = 1 THEN Zeros(Rows(A), 1)
    ELSE CHOOSE Y \in {Step(A, B, X) : X \in {Simulate(A, B, n - 1)}} : TRUE

\* np.random.normal(size = (r, c)) after np.random.seed(0) (line 18): the
\* stream of draws has a fixed shape, here entry (i, j) is ((i + j) mod 3) - 1
\* times a factor s in -MaxNoise..MaxNoise that stands for the unknown draws
NormalSamples(r, c) ==
    {[i \in 1..r |-> [j \in 1..c |-> s * (((i + j) % 3) - 1)]] :
        s \in -MaxNoise..MaxNoise}

\* noise_level = 1e-5 (line 73): the smallest nonzero level of the model
default_noise_level == 1

\* np.identity(n)
Identity(n) == [i \in 1..n |-> [j \in 1..n |-> IF i = j THEN 1 ELSE 0]]

\* generate_data with the noise added to the inputs as well
generate_data_NoisyInputs(A, B, noise_level, normal) ==
    LET t == [k \in 1..NumSamples |-> k - 1]
        U == <<[k \in 1..NumSamples |-> utraj(t[k])]>>
        X == Simulate(A, B, NumSamples)
    IN  [t |-> t,
         U |-> <<[k \in 1..NumSamples |-> U[1][k] + normal[1][k] * noise_level]>>,
         X |-> MatAdd(X, Scale(normal, noise_level))]

\* generate_data (lines 73-98): t, U, X with the noise drawn as `normal`.
\* The logger records the plant's output port y = C x + D u, with
\* C = np.identity and D = np.zeros as the notebook passes them (lines 52-53).
generate_data(A, B, noise_level, normal) ==
    LET t == [k \in 1..NumSamples |-> k - 1]
        U == <<[k \in 1..NumSamples |-> utraj(t[k])]>>
        C == Identity(Rows(A))
        D == Zeros(Rows(A), Rows(U))
        x == Simulate(A, B, NumSamples)
        X == MatAdd(MatMul(C, x), MatMul(D, U))
    IN  [t |-> t, U |-> U, X |-> MatAdd(X, Scale(normal, noise_level))]

\* sysid_2norm (lines 144-153) as it stands: A and B stay zero
sysid_2norm(X, U) ==
    LET n == Rows(X)
        m == Rows(U)
    IN  [A |-> Zeros(n, n), B |-> Zeros(n, m)]

\* sysid_infnorm and sysid_1norm (lines 198-210, 253-265) as they stand: A and
\* B stay zero, an empty program is solved and its optimal cost is returned
\* without looking at result.is_success()
SysidWithProgram(ps, p, ok, X, U) ==
    LET n == Rows(X)
        m == Rows(U)
        constructed == [ps EXCEPT ![p] = [NoProg EXCEPT !.constructed = TRUE]]
        solved == [constructed EXCEPT ![p].solves = @ + 1, ![p].success = ok]
    IN  [A |-> Zeros(n, n), B |-> Zeros(n, m),
         obj_value |-> IF ok THEN "0" ELSE "inf",
         progs |-> ReadResult(solved, p)]

\* The systems and the noise draws a session tries: all of them when one
\* notebook runs alone; when two notebooks run side by side, two systems (one
\* the placeholder estimates fit, one they do not) and the zero draw, since
\* the data take no part in what the notebooks could exchange.
SessionSystems ==
    IF Cardinality(kernels) = 1 THEN Systems
    ELSE {sys \in Systems : sys.A = <<<<1>>>> /\ sys.B[1][1] >= 0}

SessionNormals(r, c) ==
    IF Cardinality(kernels) = 1 THEN NormalSamples(r, c)
    ELSE {normal \in NormalSamples(r, c) : normal = Zeros(r, c)}

SI_Imports ==
    /\ SI \in kernels /\ pc[SI] = "imports"
    /\ pc' = Goto(SI, "system")
    /\ trace' = Log(SI, <<"import">>)
    /\ UNCHANGED <<kernels, locals, progs, callbacks, h_updates, filled,
                   verified, verify_calls, cwd, files, printed>>

\* lines 46-53: A, B, C, D
SI_DefineSystem ==
    /\ SI \in kernels /\ pc[SI] = "system"
    /\ \E sys \in SessionSystems : locals' = Bind(SI, [A |-> sys.A, B |-> sys.B])
    /\ trace' = Log(SI, <<"define">>)
    /\ pc' = Goto(SI, "data")
    /\ UNCHANGED <<kernels, progs, callbacks, h_updates, filled, verified,
                   verify_calls, cwd, files, printed>>

\* lines 73-111: def generate_data; t, U, X = generate_data(A, B, C, D) with
\* the default noise_level (the model's smallest nonzero level); plots
SI_GenerateData ==
    /\ SI \in kernels /\ pc[SI] = "data"
    /\ \E normal \in SessionNormals(Rows(locals[SI]["A"]), NumSamples) :
          \E d \in {generate_data(locals[SI]["A"], locals[SI]["B"],
                                  default_noise_level, normal)} :
              locals' = Bind(SI, [t |-> d.t, U |-> d.U, X |-> d.X])
    /\ trace' = Log(SI, <<"define", "plot">>)
    /\ pc' = Goto(SI, "sysid_2norm")
    /\ UNCHANGED <<kernels, progs, callbacks, h_updates, filled, verified,
                   verify_calls, cwd, files, printed>>

\* lines 144-171: def sysid_2norm; the estimate; prints
SI_Sysid2Norm ==
    /\ SI \in kernels /\ pc[SI] = "sysid_2norm"
    /\ \E est \in {sysid_2norm(locals[SI]["X"], locals[SI]["U"])} :
           locals' = Bind(SI, [Ahat_2norm |-> est.A, Bhat_2norm |-> est.B,
                 residuals_2norm |->
                      PrintedResiduals(est.A, est.B, locals[SI]["X"], locals[SI]["U"])])
    /\ trace' = Log(SI, <<"define", "print">>)
    /\ pc' = Goto(SI, "sysid_infnorm")
    /\ UNCHANGED <<kernels, progs, callbacks, h_updates, filled, verified,
                   verify_calls, cwd, files, printed>>

\* lines 198-228: def sysid_infnorm; the estimate; prints
SI_SysidInfNorm ==
    /\ SI \in kernels /\ pc[SI] = "sysid_infnorm"
    /\ \E ok \in BOOLEAN :
          \E est \in {SysidWithProgram(progs, "sysid_infnorm_1", ok,
                                       locals[SI]["X"], locals[SI]["U"])} :
              /\ progs' = est.progs
              /\ locals' = Bind(SI, [Ahat_infnorm |-> est.A, Bhat_infnorm |-> est.B,
                    obj_infnorm |-> est.obj_value,
                    residuals_infnorm |->
                         PrintedResiduals(est.A, est.B, locals[SI]["X"], locals[SI]["U"])])
    /\ trace' = Log(SI, <<"define", "solve", "print">>)
    /\ pc' = Goto(SI, "sysid_1norm")
    /\ UNCHANGED <<kernels, callbacks, h_updates, filled, verified,
                   verify_calls, cwd, files, printed>>

\* lines 253-283: def sysid_1norm; the estimate; prints
SI_Sysid1Norm ==
    /\ SI \in kernels /\ pc[SI] = "sysid_1norm"
    /\ \E ok \in BOOLEAN :
          \E est \in {SysidWithProgram(progs, "sysid_1norm_1", ok,
                                       locals[SI]["X"], locals[SI]["U"])} :
              /\ progs' = est.progs
              /\ locals' = Bind(SI, [Ahat_1norm |-> est.A, Bhat_1norm |-> est.B,
                    obj_1norm |-> est.obj_value,
                    residuals_1norm |->
                         PrintedResiduals(est.A, est.B, locals[SI]["X"], locals[SI]["U"])])
    /\ trace' = Log(SI, <<"define", "solve", "print">>)
    /\ pc' = Goto(SI, "lqr")
    /\ UNCHANGED <<kernels, callbacks, h_updates, filled, verified,
                   verify_calls, cwd, files, printed>>

\* lines 304-354: def test_LQR; the three closed-loop runs; plots
SI_TestLQR ==
    /\ SI \in kernels /\ pc[SI] = "lqr"
    /\ locals' = Bind(SI, [t |-> <<"test_LQR">>,
              X_2norm |-> <<"test_LQR", locals[SI]["Ahat_2norm"]>>,
              X_infnorm |-> <<"test_LQR", locals[SI]["Ahat_infnorm"]>>,
              X_1norm |-> <<"test_LQR", locals[SI]["Ahat_1norm"]>>])
    /\ trace' = Log(SI, <<"define", "plot">>)
    /\ pc' = Goto(SI, "noisy")
    /\ UNCHANGED <<kernels, progs, callbacks, h_updates, filled, verified,
                   verify_calls, cwd, files, printed>>

\* line 374: generate_data with the noise_level the reader has chosen (0.5 as
\* shipped)
SI_NoisyData ==
    /\ SI \in kernels /\ pc[SI] = "noisy"
    /\ \E noise_level \in 0..MaxNoise,
          normal \in SessionNormals(Rows(locals[SI]["A"]), NumSamples) :
          \E d \in {generate_data(locals[SI]["A"], locals[SI]["B"], noise_level, normal)} :
              locals' = Bind(SI, [noise_level |-> noise_level,
                                  t |-> d.t, U_noisy |-> d.U, X_noisy |-> d.X])
    /\ pc' = Goto(SI, "noisy_sysid")
    /\ UNCHANGED <<kernels, trace, progs, callbacks, h_updates, filled, verified,
                   verify_calls, cwd, files, printed>>

\* lines 376-397: the three estimates again, test_LQR again, plots
SI_NoisySysid ==
    /\ SI \in kernels /\ pc[SI] = "noisy_sysid"
    /\ \E ok_inf \in BOOLEAN, ok_1 \in BOOLEAN :
          \E d \in {[X |-> locals[SI]["X_noisy"], U |-> locals[SI]["U_noisy"]]} :
          \E e2 \in {sysid_2norm(d.X, d.U)} :
          \E einf \in {SysidWithProgram(progs, "sysid_infnorm_2", ok_inf, d.X, d.U)} :
          \E e1 \in {SysidWithProgram(einf.progs, "sysid_1norm_2", ok_1, d.X, d.U)} :
              /\ progs' = e1.progs
              /\ locals' = Bind(SI,
                      [t |-> <<"test_LQR">>,
                       Ahat_noisy_2norm |-> e2.A, Bhat_noisy_2norm |-> e2.B,
                       Ahat_noisy_infnorm |-> einf.A, Bhat_noisy_infnorm |-> einf.B,
                       obj_infnorm_noisy |-> einf.obj_value,
                       Ahat_noisy_1norm |-> e1.A, Bhat_noisy_1norm |-> e1.B,
                       obj_1norm_noisy |-> e1.obj_value,
                       X_2norm |-> <<"test_LQR", e2.A>>,
                       X_infnorm |-> <<"test_LQR", einf.A>>,
                       X_1norm |-> <<"test_LQR", e1.A>>])
    /\ trace' = Log(SI, <<"solve", "solve", "plot">>)
    /\ pc' = Goto(SI, "grade")
    /\ UNCHANGED <<kernels, callbacks, h_updates, filled, verified,
                   verify_calls, cwd, files, printed>>

LinearSysid ==
    \/ SI_Imports \/ SI_DefineSystem \/ SI_GenerateData \/ SI_Sysid2Norm
    \/ SI_SysidInfNorm \/ SI_Sysid1Norm \/ SI_TestLQR \/ SI_NoisyData
    \/ SI_NoisySysid

\* The residual computation on its own (lines 168-171, and the same four
\* lines at 225-228 and 280-283): for an estimate Ahat, Bhat and data X, U
\* already in the notebook's variables, res and the three printed values.
SI_Residuals ==
    /\ SI \in kernels /\ pc[SI] = "residuals"
    /\ \E v \in {locals[SI]} :
          \E res \in {Residual(v["Ahat"], v["Bhat"], v["X"], v["U"])} :
              locals' = Bind(SI, [res |-> res,
                    residuals |-> <<ResidualNorm2(res), ResidualNormInf(res),
                                    ResidualNorm1(res)>>])
    /\ trace' = Log(SI, <<"print">>)
    /\ pc' = Goto(SI, "residuals_printed")
    /\ UNCHANGED <<kernels, progs, callbacks, h_updates, filled, verified,
                   verify_calls, cwd, files, printed>>

\* Estimates a filled-in sysid function may return for a system of two states
\* and one input: the zero placeholders and others.
EstimateValues ==
    {[A |-> a, B |-> b] :
        a \in {Zeros(2, 2), <<<<1, 0>>, <<0, 1>>>>, <<<<1, -1>>, <<0, 1>>>>},
        b \in {Zeros(2, 1), <<<<1>>, <<-1>>>>}}

\* Data matrices with NumSamples columns: the first state any sequence in
\* -MaxEntry..MaxEntry, the second constant or alternating between 0 and 1,
\* the input a ramp u0 + k*du.
DataValues ==
    {[X |-> <<x1, x2>>, U |-> <<[k \in 1..NumSamples |-> u0 + (k - 1) * du]>>] :
        x1 \in [1..NumSamples -> -MaxEntry..MaxEntry],
        x2 \in {[k \in 1..NumSamples |-> (a * k + b) % 2] : a \in 0..1, b \in 0..1},
        u0 \in 0..1, du \in 0..1}

\* ------------------------------------------------------ the autograder
\* underactuated.exercises.grader and the two test classes are not among the
\* sources; they are modelled from what the specification says of them.

TestClass(nb) == IF nb = SI THEN "TestLinearSysid" ELSE "TestVanDerPol"

\* TestLinearSysid: on noiseless data of the notebook's system the three
\* estimates leave no residual
PassesLinearSysid(v) ==
    LET zero == Zeros(Rows(v["A"]), NumSamples)
        d    == generate_data(v["A"], v["B"], 0, zero)
        est  == sysid_2norm(d.X, d.U)
    IN  /\ {"Ahat_2norm", "Ahat_infnorm", "Ahat_1norm"} \subseteq DOMAIN v
        /\ PrintedResiduals(est.A, est.B, d.X, d.U) = <<0, 0, 0>>

\* TestVanDerPol: the three estimates of rho exist and agree
PassesVanDerPol(v) ==
    /\ {"rho_method_1", "rho_method_2", "rho_method_3"} \subseteq DOMAIN v
    /\ v["rho_method_2"] = v["rho_method_1"]
    /\ v["rho_method_3"] = v["rho_method_2"]

\* Grader.grade_output([test], [variables], file): the content written
grade_output(test, v) ==
    <<[test |-> test,
       passed |-> IF test = "TestLinearSysid" THEN PassesLinearSysid(v)
                                               ELSE PassesVanDerPol(v)]>>

\* a results.json left behind by an earlier run of the notebook
StaleResults(nb) == <<[test |-> TestClass(nb), passed |-> FALSE]>>

\* GradeOutput handed an empty dictionary instead of locals()
GradeOutput_NoLocals(nb) ==
    /\ nb \in kernels /\ pc[nb] = "grade"
    /\ files' = [files EXCEPT ![cwd[nb]] = grade_output(TestClass(nb), NoVariables)]
    /\ trace' = Log(nb, <<"import", "grade">>)
    /\ pc' = Goto(nb, "print_test_results")
    /\ UNCHANGED <<kernels, locals, progs, callbacks, h_updates, filled,
                   verified, verify_calls, cwd, printed>>

\* the grading cell, first statement:
\* Grader.grade_output([Test...], [locals()], 'results.json')
GradeOutput(nb) ==
    /\ nb \in kernels /\ pc[nb] = "grade"
    /\ files' = [files EXCEPT ![cwd[nb]] = grade_output(TestClass(nb), locals[nb])]
    /\ trace' = Log(nb, <<"import", "grade">>)
    /\ pc' = Goto(nb, "print_test_results")
    /\ UNCHANGED <<kernels, locals, progs, callbacks, h_updates, filled,
                   verified, verify_calls, cwd, printed>>

\* the grading cell, second statement: Grader.print_test_results('results.json')
PrintTestResults(nb) ==
    /\ nb \in kernels /\ pc[nb] = "print_test_results"
    /\ IF files[cwd[nb]] = <<>>
          THEN /\ pc' = Goto(nb, "error")
               /\ UNCHANGED <<printed, trace>>
          ELSE /\ printed' = [printed EXCEPT ![nb] = files[cwd[nb]]]
               /\ trace' = Log(nb, <<"report">>)
               /\ pc' = Goto(nb, "done")
    /\ UNCHANGED <<kernels, locals, progs, callbacks, h_updates, filled,
                   verified, verify_calls, cwd, files>>

Grading ==
    \/ \E nb \in ExerciseNotebooks : GradeOutput(nb)
    \/ \E nb \in ExerciseNotebooks : PrintTestResults(nb)

\* ------------------------------------------------------ the specification

\* One notebook is opened in a fresh kernel whose working directory is the
\* notebook's own; a results.json of an earlier run may lie there.
Init ==
    /\ kernels \in {{nb} : nb \in Notebooks}
    /\ pc = [nb \in Notebooks |-> "imports"]
    /\ trace = [nb \in Notebooks |-> <<>>]
    /\ locals = [nb \in Notebooks |-> NoVariables]
    /\ progs = [p \in ProgIds |-> NoProg]
    /\ callbacks = {}
    /\ h_updates = 0
    /\ filled = {}
    /\ verified = <<>>
    /\ verify_calls = <<>>
    /\ cwd = [nb \in Notebooks |-> nb]
    /\ files \in [Notebooks -> {<<>>} \cup {StaleResults(nb) : nb \in ExerciseNotebooks}]
    /\ \A d \in Notebooks :
          files[d] # <<>> => d \in kernels /\ files[d] = StaleResults(d)
    /\ printed = [nb \in Notebooks |-> <<>>]

Next == LimitCycles \/ VanDerPol \/ LinearSysid \/ Grading

Spec == Init /\ [][Next]_vars

\* The two exercise notebooks are open at once, each in a kernel (an
\* operating-system process) of its own, and their statements interleave.
\* The grading cells name the relative path 'results.json', so the file they
\* touch is the one in the kernel's working directory: each notebook's own
\* directory, or one directory for both.
InitShared ==
    /\ kernels = ExerciseNotebooks
    /\ pc = [nb \in Notebooks |-> "imports"]
    /\ trace = [nb \in Notebooks |-> <<>>]
    /\ locals = [nb \in Notebooks |-> NoVariables]
    /\ progs = [p \in ProgIds |-> NoProg]
    /\ callbacks = {}
    /\ h_updates = 0
    /\ filled = {}
    /\ verified = <<>>
    /\ verify_calls = <<>>
    /\ cwd \in {[nb \in Notebooks |-> nb], [nb \in Notebooks |-> SI]}
    /\ files = [d \in Notebooks |-> <<>>]
    /\ printed = [nb \in Notebooks |-> <<>>]

NextShared == VanDerPol \/ LinearSysid \/ Grading

SpecShared == InitShared /\ [][NextShared]_vars

\* The residual computation applied to any estimate and any data.
InitResiduals ==
    /\ kernels = {SI}
    /\ pc = [nb \in Notebooks |-> IF nb = SI THEN "residuals" ELSE "imports"]
    /\ trace = [nb \in Notebooks |-> <<>>]
    /\ \E est \in EstimateValues, d \in DataValues :
          locals = [nb \in Notebooks |->
                       IF nb = SI THEN [Ahat |-> est.A, Bhat |-> est.B,
                                        X |-> d.X, U |-> d.U]
                                  ELSE NoVariables]
    /\ progs = [p \in ProgIds |-> NoProg]
    /\ callbacks = {}
    /\ h_updates = 0
    /\ filled = {}
    /\ verified = <<>>
    /\ verify_calls = <<>>
    /\ cwd = [nb \in Notebooks |-> nb]
    /\ files = [d \in Notebooks |-> <<>>]
    /\ printed = [nb \in Notebooks |-> <<>>]

NextResiduals == SI_Residuals

SpecResiduals == InitResiduals /\ [][NextResiduals]_vars

\* ------------------------------------------------------------ properties

\* the statement asserting result.is_success() in a notebook
assertLabel(nb) == IF nb = LC THEN "assert" ELSE "method2_assert"

Finished(nb) == nb \in kernels /\ pc[nb] = "done"

IsZero(M) == \A i \in 1..Rows(M) : \A j \in 1..Cols(M) : M[i][j] = 0

\* the grading cell is about to run, is running or has run
AtGrading(nb) ==
    nb \in kernels /\ pc[nb] \in {"grade", "print_test_results", "done"}

\* C1: in every notebook, a value is read from a solver result
\* (ReconstructStateTrajectory, GetSolution, get_optimal_cost) only after an
\* assertion of result.is_success() has passed for that result.
C1_ReadOnlyAfterAssert ==
    \A p \in ProgIds : progs[p].reads > 0 => progs[p].asserted

\* C2: with the student placeholders unfilled, when the grading cell runs
\* the three sysid estimates are all-zero matrices and rho_method_1,
\* rho_method_2 and rho_method_3 are all defined and equal to 0.
C2_UnfilledGivesZeros ==
    /\ AtGrading(SI) =>
          \A name \in {"Ahat_2norm", "Bhat_2norm", "Ahat_infnorm", "Bhat_infnorm",
                       "Ahat_1norm", "Bhat_1norm"} :
              Defined(SI, name) /\ IsZero(locals[SI][name])
    /\ (AtGrading(VP) /\ filled = {}) =>
          \A name \in {"rho_method_1", "rho_method_2", "rho_method_3"} :
              Defined(VP, name) /\ locals[VP][name] = 0

\* what C3 says of a failed solve: the notebook has stopped at the assertion,
\* nothing was read from the result, the variable that would hold the
\* solution is unbound and nothing was plotted or printed after the solve
StoppedAtAssertion(nb, p, name) ==
    (progs[p].solves > 0 /\ ~progs[p].success /\ pc[nb] # assertLabel(nb)) =>
        /\ pc[nb] = "error"
        /\ progs[p].reads = 0
        /\ ~Defined(nb, name)
        /\ Last(trace[nb]) = "solve"

C3_FailureStops ==
    /\ StoppedAtAssertion(LC, "prog", "x_trajectory")
    /\ StoppedAtAssertion(VP, "prog2", "rho_method_2")

\* C3 as stated: every constructed program has been passed to Solve exactly
\* once when its notebook has finished, and a failed solve in
\* vdp_limit_cycle or in the Method 2 cell stops the notebook at the
\* assertion with no retry.
C3_SolvedExactlyOnce ==
    /\ \A p \in ProgIds :
          /\ progs[p].solves <= 1
          /\ (progs[p].constructed /\ Finished(Owner(p))) => progs[p].solves = 1
    /\ C3_FailureStops

\* the programs the notebooks construct and never solve: prog3, and prog2
\* when the guard of line 470 is false
NeverSolved(p) ==
    \/ p = "prog3"
    \/ p = "prog2" /\ progs[p].constraints <= 1

\* C3, amended: every constructed program is passed to Solve at most once:
\* exactly once when its notebook has finished, except prog3 and a prog2
\* whose guard is false, which are never solved; and a failed solve in
\* vdp_limit_cycle or in the Method 2 cell stops the notebook at the
\* assertion: nothing is reconstructed or plotted, rho_method_2 is not
\* assigned, and the program is not solved again.
C3_NoRetry ==
    /\ \A p \in ProgIds :
          /\ progs[p].solves <= 1
          /\ progs[p].solves > 0 => progs[p].constructed
          /\ NeverSolved(p) => progs[p].solves = 0
          /\ (progs[p].constructed /\ Finished(Owner(p)) /\ ~NeverSolved(p))
                => progs[p].solves = 1
    /\ C3_FailureStops

\* C3 witness: Solve(prog2) has failed and the notebook has stopped
C3_Witness ==
    /\ pc[VP] = "error"
    /\ progs["prog2"].solves = 1
    /\ ~progs["prog2"].success

\* C4: once the Method 1 cell has run (and is_verified(0) holds), rho_method_1
\* is the maximum verified rho: rho_method_1 = K*rho_step with is_verified
\* True at every k*rho_step, 0 <= k <= K, and False at (K+1)*rho_step.
C4_LineSearchMaximum ==
    (Defined(VP, "rho_method_1") /\ is_verified(0)) =>
        \E K \in 0..MaxRho :
            /\ locals[VP]["rho_method_1"] = K * locals[VP]["rho_step"]
            /\ \A k \in 0..K : is_verified(k)
            /\ ~is_verified(K + 1)

\* the first multiple of rho_step at which is_verified returns False
FirstUnverified == CHOOSE m \in 0..(MaxRho + 1) :
                       ~is_verified(m) /\ \A k \in 0..(m - 1) : is_verified(k)

\* C5: once the Method 1 cell has run, the line search has called is_verified
\* at 0, rho_step, ... up to the first multiple where it returns False, and
\* not beyond it.
C5_SearchStopsAtFirstFalse ==
    Defined(VP, "rho_method_1") =>
        verify_calls = [i \in 1..(FirstUnverified + 1) |-> i - 1]

\* C6: Solve(prog2) is called only if both student lines (the SOS constraint
\* and the objective) are present; if either is missing the Method 2 cell
\* neither solves nor fails an assertion.
C6_SolveOnlyIfBothLines ==
    (VP \in kernels /\ Defined(VP, "rho_method_1") /\ filled # StudentLines) =>
        /\ progs["prog2"].solves = 0
        /\ pc[VP] # "error"

\* C8: for noiseless data (noise_level = 0) each of the three estimates leaves
\* a residual, in its own norm, below the tolerance (less than one data unit).
C8_NoiselessResidualSmall ==
    (AtGrading(SI) /\ locals[SI]["noise_level"] = 0) =>
        LET v == locals[SI]
            r2   == PrintedResiduals(v["Ahat_noisy_2norm"], v["Bhat_noisy_2norm"],
                                     v["X_noisy"], v["U_noisy"])
            rinf == PrintedResiduals(v["Ahat_noisy_infnorm"], v["Bhat_noisy_infnorm"],
                                     v["X_noisy"], v["U_noisy"])
            r1   == PrintedResiduals(v["Ahat_noisy_1norm"], v["Bhat_noisy_1norm"],
                                     v["X_noisy"], v["U_noisy"])
        IN  r2[1] < 1 /\ rinf[2] < 1 /\ r1[3] < 1

PlotOrPrint(nb) == Positions(trace[nb], "plot") \cup Positions(trace[nb], "print")

\* C9 as stated: a finished notebook has ended with the autograder call, and
\* no solver call comes after the notebook's first plot or print.
C9_SolverBeforePlots ==
    \A nb \in kernels :
        /\ Finished(nb) => Last(trace[nb]) \in {"grade", "report"}
        /\ \A i \in Positions(trace[nb], "solve") :
              \A j \in PlotOrPrint(nb) : i < j

\* C9, amended: every notebook runs as one linear sequence of cells that
\* starts with its imports; the two exercise notebooks end with the
\* autograder call, which runs once, while limit_cycles.ipynb has no
\* autograder and ends with its plot; and solver calls are not confined to
\* before plotting: every solver call comes after the notebook's first plot.
C9_LinearPhases ==
    \A nb \in kernels :
        /\ trace[nb] # <<>> => trace[nb][1] = "import"
        /\ Cardinality(Positions(trace[nb], "grade")) <= 1
        /\ nb \in ExerciseNotebooks =>
              /\ Finished(nb) <=> (trace[nb] # <<>> /\ Last(trace[nb]) = "report")
              /\ \A i \in Positions(trace[nb], "grade") : i >= Len(trace[nb]) - 1
        /\ nb \notin ExerciseNotebooks =>
              /\ Positions(trace[nb], "grade") = {}
              /\ Finished(nb) => Last(trace[nb]) = "plot"
        /\ \A i \in Positions(trace[nb], "solve") :
              \E j \in Positions(trace[nb], "plot") : j < i

\* C9 witness: linear_sysid has finished, with solver calls after its plots
C9_Witness ==
    /\ Finished(SI)
    /\ \E i \in Positions(trace[SI], "solve") :
          \E j \in Positions(trace[SI], "plot") : j < i

WrittenBy(results, nb) ==
    \A i \in 1..Len(results) : results[i].test = TestClass(nb)

\* C11: there is no data flow between notebooks: under any interleaving of
\* the two exercise notebooks, what a notebook reads from results.json (and
\* prints) was written by that notebook itself, never by the other one.
C11_NoCrossNotebookFlow ==
    \A nb \in ExerciseNotebooks : WrittenBy(printed[nb], nb)

\* C12: vdp_limit_cycle runs with no callbacks: draw_trajectory is never
\* registered with the trajectory optimization, so it is never invoked
\* during Solve(prog) and the plot handle h is not modified while the solver
\* runs (h keeps the empty data it was created with).
C12_NoCallbackDuringSolve ==
    /\ callbacks = {}
    /\ h_updates = 0
    /\ Defined(LC, "h") => locals[LC]["h"] = <<>>

\* C12 witness: Solve(prog) has run and h exists
C12_Witness ==
    /\ progs["prog"].solves = 1
    /\ Defined(LC, "h")
    /\ h_updates = 0

\* the solution is periodic and its initial position is 0
PeriodicFromSection(x) ==
    /\ x.final_state = x.initial_state
    /\ x.initial_state[1] = 0

Period(x) == x.breaks[Len(x.breaks)] - x.breaks[1]

\* C14: in any accepted solution of vdp_limit_cycle there are 61 breaks and
\* 60 intervals between them, all intervals are equal and each lies between
\* 0.01 and 0.5, so the period lies between 0.6 and 30.
\* (times in hundredths: 1 is 0.01, 50 is 0.5, 60 is 0.6, 3000 is 30)
C14_EvenBreaksBoundedPeriod ==
    Defined(LC, "x_trajectory") =>
        LET x == locals[LC]["x_trajectory"]
            n == Len(x.breaks)
        IN  /\ n = 61
            /\ \A k \in 1..(n - 1) :
                  /\ x.breaks[k + 1] - x.breaks[k] = x.breaks[2] - x.breaks[1]
                  /\ x.breaks[k + 1] - x.breaks[k] >= 1
                  /\ x.breaks[k + 1] - x.breaks[k] <= 50
            /\ Period(x) >= 60
            /\ Period(x) <= 3000

\* C14 witness: an accepted solution with the longest period, 30
C14_Witness ==
    /\ progs["prog"].asserted
    /\ Defined(LC, "x_trajectory")
    /\ Period(locals[LC]["x_trajectory"]) = 3000

\* column n of a matrix (n = 1 is the step 0), as a vector
ColumnOf(M, n) == [i \in 1..Rows(M) |-> M[i][n]]

\* the product of a matrix and a vector
MatVec(M, v) ==
    [i \in 1..Rows(M) |-> SumSeq([k \in 1..Len(v) |-> M[i][k] * v[k]])]

\* x[n+1] - A x[n] - B u[n] for the step n = 0, 1, ..., N-1
PredictionError(A, B, X, U, n) ==
    LET Ax == MatVec(A, ColumnOf(X, n + 1))
        Bu == MatVec(B, ColumnOf(U, n + 1))
    IN  [i \in 1..Rows(X) |-> X[i][n + 2] - Ax[i] - Bu[i]]

Norm2Squared(v) == SumSeq([i \in 1..Len(v) |-> v[i] * v[i]])

NormInf(v) == MaxSeq([i \in 1..Len(v) |-> Abs(v[i])])

Norm1(v) == SumSeq([i \in 1..Len(v) |-> Abs(v[i])])

\* the three objectives (a), (b), (c) of the notebook at an estimate: the sum
\* over n = 0..N-1 of the norm of x[n+1] - A x[n] - B u[n]
Objectives(A, B, X, U) ==
    LET N == Cols(X) - 1
        e(n) == PredictionError(A, B, X, U, n)
    IN  <<SumSeq([k \in 1..N |-> Norm2Squared(e(k - 1))]),
          SumSeq([k \in 1..N |-> NormInf(e(k - 1))]),
          SumSeq([k \in 1..N |-> Norm1(e(k - 1))])>>

ResidualsPrinted == pc[SI] = "residuals_printed"

\* C15: for every estimate (Ahat, Bhat) and data (X, U), the three printed
\* residuals equal the three stated objectives at that estimate: the sum
\* over n of the squared Euclidean norm of column n of res, the sum over n
\* of the largest absolute entry of column n (largest over the state
\* components, not over time), and the sum of all absolute entries.
C15_ResidualsAreObjectives ==
    ResidualsPrinted =>
        LET v == locals[SI] IN
        v["residuals"] = Objectives(v["Ahat"], v["Bhat"], v["X"], v["U"])

\* C15 witness: residuals printed for which the three values differ and the
\* maximum over time would have given another inf-norm value
C15_Witness ==
    /\ ResidualsPrinted
    /\ locals[SI]["residuals"][2] < locals[SI]["residuals"][3]
    /\ locals[SI]["residuals"][3] < locals[SI]["residuals"][1]
    /\ locals[SI]["residuals"][2] # ResidualNormInf_OverTime(locals[SI]["res"])

\* M with its column n replaced by the constant w
WithColumn(M, n, w) ==
    [i \in 1..Rows(M) |-> [j \in 1..Cols(M) |-> IF j = n THEN w ELSE M[i][j]]]

\* C16: for data with N+1 columns, res has exactly N columns and its column
\* n is Ahat x[n] + Bhat u[n] - x[n+1] for n = 0..N-1; the last input u[N]
\* is unused (another value there gives the same res), and x[0] is never a
\* target (with Ahat = 0, another x[0] gives the same res).
C16_ResidualColumns ==
    ResidualsPrinted =>
        LET v == locals[SI]
            N == Cols(v["X"]) - 1
        IN  /\ Cols(v["U"]) = N + 1
            /\ Rows(v["res"]) = Rows(v["X"])
            /\ Cols(v["res"]) = N
            /\ \A n \in 0..(N - 1) :
                  LET e == PredictionError(v["Ahat"], v["Bhat"], v["X"], v["U"], n)
                  IN  ColumnOf(v["res"], n + 1) = [i \in 1..Rows(v["X"]) |-> -e[i]]
            /\ \A w \in -MaxEntry..(MaxEntry + NumSamples) :
                  Residual(v["Ahat"], v["Bhat"], v["X"],
                           WithColumn(v["U"], N + 1, w)) = v["res"]
            /\ IsZero(v["Ahat"]) =>
                  \A w \in -MaxEntry..MaxEntry :
                      Residual(v["Ahat"], v["Bhat"],
                               WithColumn(v["X"], 1, w), v["U"]) = v["res"]

\* C16 witness: residuals printed for inputs that change at every step, the
\* last one too, and an estimate with Bhat # 0
C16_Witness ==
    /\ ResidualsPrinted
    /\ ~IsZero(locals[SI]["Bhat"])
    /\ \A k \in 1..(NumSamples - 1) :
          locals[SI]["U"][1][k] # locals[SI]["U"][1][k + 1]

\* the state of the one-state system x[k+1] = a x[k] + b u(t[k]) at the k-th
\* sample time, from x[0] = 0
RECURSIVE StateAt(_, _, _, _)
StateAt(a, b, t, k) ==
    IF k = 1 THEN 0 ELSE a * StateAt(a, b, t, k - 1) + b * utraj(t[k - 1])

\* what C17 says of one call of generate_data that returned t, U, X
GeneratedData(A, B, t, U, X, noise_level) ==
    /\ Len(t) = Cols(U) /\ Cols(U) = Cols(X)
    /\ Rows(U) = 1 /\ Rows(X) = Rows(A)
    /\ \A k \in 1..Len(t) : U[1][k] = utraj(t[k])
    /\ \E normal \in NormalSamples(Rows(X), Cols(X)) :
          \A k \in 1..Len(t) :
              X[1][k] = StateAt(A[1][1], B[1][1], t, k) + normal[1][k] * noise_level

\* C17: (as each call of generate_data returns, lines 101 and 374)
\* generate_data returns t, U and X with the same number of columns;
\* column k of U is the input trajectory at the sample time t[k], column k of
\* X is the state logged at t[k] plus noise; the noise is added to X only and
\* U is returned unperturbed.
C17_GeneratedData ==
    /\ (SI \in kernels /\ pc[SI] = "sysid_2norm") =>
          LET v == locals[SI] IN
          GeneratedData(v["A"], v["B"], v["t"], v["U"], v["X"], default_noise_level)
    /\ (SI \in kernels /\ pc[SI] = "noisy_sysid") =>
          LET v == locals[SI] IN
          GeneratedData(v["A"], v["B"], v["t"], v["U_noisy"], v["X_noisy"],
                        v["noise_level"])

\* C17 witness: generate_data has returned data with noise in X: some logged
\* state is off the noiseless one while the inputs are nonzero
C17_Witness ==
    /\ SI \in kernels /\ pc[SI] = "noisy_sysid"
    /\ locals[SI]["noise_level"] > 0
    /\ \E k \in 1..NumSamples :
          /\ locals[SI]["X_noisy"][1][k] #
                 StateAt(locals[SI]["A"][1][1], locals[SI]["B"][1][1], locals[SI]["t"], k)
          /\ locals[SI]["U_noisy"][1][k] # 0

====
